---- MODULE Spec2Model ----
(***************************************************************************)
(* Builder of the double-array Aho-Corasick automaton (src/builder.rs).    *)
(*                                                                         *)
(* The model follows the builder stage by stage: SparseTrie::add, the      *)
(* double-array placer with its slot allocator, add_fails, build_outputs   *)
(* and set_dummy_outputs.  Arrays are functions over 0..n-1, as in the     *)
(* source.  Bytes are ByteBits wide, so a block has 2^ByteBits slots; the  *)
(* integers of TLC are 32 bits wide, so u32 is modelled 30 bits wide and   *)
(* usize 31 bits wide, which keeps the order of all the sentinels.         *)
(***************************************************************************)
EXTENDS Integers, Sequences, FiniteSets, TLC

VARIABLES
    api,            \* "build" or "build_with_values": the entry point in use
    patvals,        \* the (pattern, value) pairs given to add so far, in order
    trie,           \* the SparseTrie of build_sparse_trie
    pc,             \* the position of the build
    err,            \* the error returned, or NoError
    states,         \* DoubleArrayAhoCorasickBuilder.states
    extras,         \* DoubleArrayAhoCorasickBuilder.extras
    outputs,        \* DoubleArrayAhoCorasickBuilder.outputs
    visits,         \* DoubleArrayAhoCorasickBuilder.visits
    head_idx,       \* DoubleArrayAhoCorasickBuilder.head_idx
    state_id_map,   \* build_double_array: trie id -> double-array index
    cur,            \* index of the running loop (trie id, vi, or visit index)
    hay,            \* the matcher: the bytes of the haystack read so far
    mstate,         \* the matcher: its current state
    matches,        \* the matcher: the (start, end, value) emitted so far, in order
    init_size,      \* the argument of new
    closed          \* the block_idx of the calls of close_block so far, in order

vars == <<api, patvals, trie, pc, err, states, extras, outputs, visits,
          head_idx, state_id_map, cur, hay, mstate, matches, init_size,
          closed>>

-----------------------------------------------------------------------------
(* Bounds of the model *)

\* width of a byte in bits; a block has 2^ByteBits slots
ByteBits == 3
\* patterns are byte strings over 0..MaxByte
MaxByte == 1
\* longest pattern
MaxLen == 3
\* most patterns given to one build
MaxPatterns == 3
\* longest haystack given to the matcher
MaxHay == 4
\* build_with_values draws its values from 0..MaxValue and VALUE_INVALID
MaxValue == 0
\* new is given the NewSizes + 1 smallest sizes and the sizes within NewSizes of
\* STATE_IDX_INVALID
NewSizes == 20
\* most patterns given to one build of a suffix-rich pattern set
ChainMax == 4
\* number of last blocks that find_base searches
FreeBlocks == 1

-----------------------------------------------------------------------------
(* Constants of the program *)

U32_MAX == 2^30 - 1
USIZE_MAX == 2 * U32_MAX + 1

BLOCK_LEN == 2^ByteBits
FREE_BLOCKS == FreeBlocks
FREE_STATES == BLOCK_LEN * FREE_BLOCKS
STATE_IDX_INVALID == U32_MAX
VALUE_INVALID == U32_MAX
LENGTH_INVALID == U32_MAX \div 2
FAIL_MAX == 2^24 - 1
OUTPOS_INVALID == U32_MAX
BASE_INVALID == U32_MAX

-----------------------------------------------------------------------------
(* Arrays indexed from 0, options, bytes *)

Size(f) == Cardinality(DOMAIN f)
Push(f, x) == [k \in 0..Size(f) |-> IF k < Size(f) THEN f[k] ELSE x]
Empty == [k \in {} |-> 0]

None == [some |-> FALSE, val |-> 0]
Some(x) == [some |-> TRUE, val |-> x]

RECURSIVE BitXor(_, _)
BitXor(a, b) ==
    IF a = 0 THEN b
    ELSE IF b = 0 THEN a
    ELSE (((a % 2) + (b % 2)) % 2) + 2 * BitXor(a \div 2, b \div 2)

NoError == [kind |-> "none", pattern |-> <<>>]
PatternScale == [kind |-> "PatternScale", pattern |-> <<>>]
DuplicatePattern(p) == [kind |-> "DuplicatePattern", pattern |-> p]
AutomatonScale == [kind |-> "AutomatonScale", pattern |-> <<>>]
InvalidArgument == [kind |-> "InvalidArgument", pattern |-> <<>>]

-----------------------------------------------------------------------------
(* SparseTrie *)

SparseTrieNew ==
    [states  |-> [k \in {0} |-> <<>>],
     outputs |-> [k \in {0} |-> <<VALUE_INVALID, LENGTH_INVALID>>],
     len     |-> 0]

SparseTrieGet(t, state_id, c) ==
    LET edges == t.states[state_id]
        hits == {k \in 1..Len(edges) : edges[k][1] = c}
    IN  IF hits = {} THEN None
        ELSE Some(edges[CHOOSE k \in hits : \A h \in hits : k <= h][2])

\* the walk of add: follows the edge of each byte, creating the missing states
RECURSIVE SparseTrieWalk(_, _, _, _)
SparseTrieWalk(t, state_id, pattern, k) ==
    IF k > Len(pattern) THEN [trie |-> t, state_id |-> state_id]
    ELSE LET c == pattern[k]
             got == SparseTrieGet(t, state_id, c)
         IN  IF got.some THEN SparseTrieWalk(t, got.val, pattern, k + 1)
             ELSE LET next_state_id == Size(t.states)
                      pushed == Push(t.states, <<>>)
                      t2 == [t EXCEPT
                               !.states = [pushed EXCEPT ![state_id] =
                                              Append(@, <<c, next_state_id>>)],
                               !.outputs = Push(t.outputs,
                                              <<VALUE_INVALID, LENGTH_INVALID>>)]
                  IN  SparseTrieWalk(t2, next_state_id, pattern, k + 1)

\* add without the test of the terminal state's output
SparseTrieAddOverwrite(t, pattern, value) ==
    IF value = VALUE_INVALID THEN [trie |-> t, result |-> PatternScale]
    ELSE IF Len(pattern) >= LENGTH_INVALID THEN [trie |-> t, result |-> PatternScale]
    ELSE LET w == SparseTrieWalk(t, 0, pattern, 1)
         IN  [trie |-> [w.trie EXCEPT
                          !.outputs[w.state_id] = <<value, Len(pattern)>>,
                          !.len = @ + 1],
              result |-> NoError]

SparseTrieAdd(t, pattern, value) ==
    IF value = VALUE_INVALID THEN [trie |-> t, result |-> PatternScale]
    ELSE IF Len(pattern) >= LENGTH_INVALID THEN [trie |-> t, result |-> PatternScale]
    ELSE LET w == SparseTrieWalk(t, 0, pattern, 1)
             output == w.trie.outputs[w.state_id]
         IN  IF output[1] # VALUE_INVALID
             THEN [trie |-> w.trie, result |-> DuplicatePattern(pattern)]
             ELSE [trie |-> [w.trie EXCEPT
                               !.outputs[w.state_id] = <<value, Len(pattern)>>,
                               !.len = @ + 1],
                   result |-> NoError]

-----------------------------------------------------------------------------
(* Slot allocator.  b is the builder: [states, extras, head_idx]. *)

StateDefault ==
    [base |-> BASE_INVALID, check |-> 0, fail |-> 0, output_pos |-> OUTPOS_INVALID]

\* Extra::default with used_base set
ExtraDefaultUsed ==
    [used_base |-> TRUE, used_index |-> FALSE, next |-> USIZE_MAX,
     prev |-> USIZE_MAX, output |-> <<VALUE_INVALID, LENGTH_INVALID>>,
     processed |-> FALSE]

ExtraDefault ==
    [used_base |-> FALSE, used_index |-> FALSE, next |-> USIZE_MAX,
     prev |-> USIZE_MAX, output |-> <<VALUE_INVALID, LENGTH_INVALID>>,
     processed |-> FALSE]

\* fix_state that leaves the prev of the next slot alone
FixStateNoPrev(b, i) ==
    LET e1 == [b.extras EXCEPT ![i].used_index = TRUE]
        next == e1[i].next
        prev == e1[i].prev
        e2 == [e1 EXCEPT ![prev].next = next]
    IN  [b EXCEPT !.extras = e2,
                  !.head_idx = IF b.head_idx = i
                               THEN (IF next = i THEN USIZE_MAX ELSE next)
                               ELSE @]

FixState(b, i) ==
    LET e1 == [b.extras EXCEPT ![i].used_index = TRUE]
        next == e1[i].next
        prev == e1[i].prev
        e2 == [e1 EXCEPT ![prev].next = next]
        e3 == [e2 EXCEPT ![next].prev = prev]
    IN  [b EXCEPT !.extras = e3,
                  !.head_idx = IF b.head_idx = i
                               THEN (IF next = i THEN USIZE_MAX ELSE next)
                               ELSE @]

InitArray ==
    LET st == [k \in 0..(BLOCK_LEN - 1) |-> StateDefault]
        ex == [k \in 0..(BLOCK_LEN - 1) |->
                 [ExtraDefault EXCEPT
                    !.prev = IF k = 0 THEN BLOCK_LEN - 1 ELSE k - 1,
                    !.next = IF k = BLOCK_LEN - 1 THEN 0 ELSE k + 1]]
    IN  FixState([states |-> [st EXCEPT ![0].check = 0], extras |-> ex,
                  head_idx |-> 0], 0)

\* check_valid_base without the test of used_base
CheckValidBaseNoBase(b, base, edges) ==
    \A k \in 1..Len(edges) : ~b.extras[BitXor(base, edges[k][1])].used_index

CheckValidBase(b, base, edges) ==
    /\ ~b.extras[base].used_base
    /\ \A k \in 1..Len(edges) : ~b.extras[BitXor(base, edges[k][1])].used_index

RECURSIVE FindBaseFrom(_, _, _)
FindBaseFrom(b, edges, idx) ==
    LET base == BitXor(idx, edges[1][1])
    IN  IF CheckValidBase(b, base, edges) THEN base
        ELSE IF b.extras[idx].next = b.head_idx THEN Size(b.states)
        ELSE FindBaseFrom(b, edges, b.extras[idx].next)

\* find_base that takes the first free slot without testing the base
FindBaseHead(b, edges) ==
    IF b.head_idx = USIZE_MAX THEN Size(b.states)
    ELSE BitXor(b.head_idx, edges[1][1])

FindBase(b, edges) ==
    IF b.head_idx = USIZE_MAX THEN Size(b.states)
    ELSE FindBaseFrom(b, edges, b.head_idx)

\* the repair loop that writes the check of every slot of the block
RECURSIVE RepairFromAll(_, _, _, _)
RepairFromAll(st, ex, unused_base, c) ==
    IF c >= BLOCK_LEN THEN st
    ELSE LET idx == BitXor(unused_base, c)
         IN  RepairFromAll([st EXCEPT ![idx].check = c], ex, unused_base, c + 1)

\* the repair loop that leaves slot 0 alone
RECURSIVE RepairFromUnused(_, _, _, _)
RepairFromUnused(st, ex, unused_base, c) ==
    IF c >= BLOCK_LEN THEN st
    ELSE LET idx == BitXor(unused_base, c)
         IN  RepairFromUnused(IF ~ex[idx].used_index
                              THEN [st EXCEPT ![idx].check = c] ELSE st,
                              ex, unused_base, c + 1)

\* for c in 0..BLOCK_LEN of remove_invalid_checks, from c on
RECURSIVE RepairFrom(_, _, _, _)
RepairFrom(st, ex, unused_base, c) ==
    IF c >= BLOCK_LEN THEN st
    ELSE LET idx == BitXor(unused_base, c)
         IN  RepairFrom(IF idx = 0 \/ ~ex[idx].used_index
                        THEN [st EXCEPT ![idx].check = c] ELSE st,
                        ex, unused_base, c + 1)

UnusedBase(b, block_idx) ==
    LET beg_idx == block_idx * BLOCK_LEN
        end_idx == beg_idx + BLOCK_LEN
        free == {k \in beg_idx..(end_idx - 1) : ~b.extras[k].used_base}
    IN  IF free = {} THEN end_idx
        ELSE CHOOSE k \in free : \A h \in free : k <= h

\* close_block without the repair pass
RemoveInvalidChecksNone(b, block_idx) == b

RemoveInvalidChecks(b, block_idx) ==
    [b EXCEPT !.states = RepairFrom(b.states, b.extras, UnusedBase(b, block_idx), 0)]

\* the loop of close_block that stops after one fix_state
FixUpToOne(b, end_idx) ==
    IF b.head_idx < end_idx /\ b.head_idx # USIZE_MAX
    THEN FixState(b, b.head_idx)
    ELSE b

\* while self.head_idx < end_idx && self.head_idx != MAX of close_block
RECURSIVE FixUpTo(_, _)
FixUpTo(b, end_idx) ==
    IF b.head_idx < end_idx /\ b.head_idx # USIZE_MAX
    THEN FixUpTo(FixState(b, b.head_idx), end_idx)
    ELSE b

CloseBlock(b, block_idx) ==
    LET beg_idx == block_idx * BLOCK_LEN
        end_idx == beg_idx + BLOCK_LEN
    IN  FixUpTo(IF block_idx = 0 \/ b.head_idx < end_idx
                THEN RemoveInvalidChecks(b, block_idx) ELSE b,
                end_idx)

\* extend_array up to the call of close_block: the new block, linked to the
\* free list
ExtendLink(b) ==
    LET old_len == Size(b.states)
        new_len == old_len + BLOCK_LEN
        st == [k \in 0..(new_len - 1) |->
                 IF k < old_len THEN b.states[k] ELSE StateDefault]
        ex == [k \in 0..(new_len - 1) |->
                 IF k < old_len THEN b.extras[k]
                 ELSE [ExtraDefault EXCEPT !.next = k + 1, !.prev = k - 1]]
    IN  IF b.head_idx = USIZE_MAX
        THEN [states |-> st,
              extras |-> [ex EXCEPT ![old_len].prev = new_len - 1,
                                    ![new_len - 1].next = old_len],
              head_idx |-> old_len]
        ELSE LET tail_idx == b.extras[b.head_idx].prev
             IN  [states |-> st,
                  extras |-> [ex EXCEPT ![old_len].prev = tail_idx,
                                        ![tail_idx].next = old_len,
                                        ![new_len - 1].next = b.head_idx,
                                        ![b.head_idx].prev = new_len - 1],
                  head_idx |-> b.head_idx]

ExtendArray(b) ==
    LET old_len == Size(b.states)
        new_len == old_len + BLOCK_LEN
        linked == ExtendLink(b)
    IN  IF new_len > STATE_IDX_INVALID
        THEN [b |-> b, result |-> AutomatonScale, closed |-> <<>>]
        ELSE [b |-> IF FREE_STATES <= old_len
                    THEN CloseBlock(linked, (old_len - FREE_STATES) \div BLOCK_LEN)
                    ELSE linked,
              result |-> NoError,
              closed |-> IF FREE_STATES <= old_len
                         THEN <<(old_len - FREE_STATES) \div BLOCK_LEN>> ELSE <<>>]

-----------------------------------------------------------------------------
(* build_double_array *)

Builder == [states |-> states, extras |-> extras, head_idx |-> head_idx]

\* for &(c, child_id) in edges: fix_state, set_check, state_id_map
RECURSIVE PlaceChildren(_, _, _, _, _)
PlaceChildren(b, map, base, edges, k) ==
    IF k > Len(edges) THEN [b |-> b, map |-> map]
    ELSE LET c == edges[k][1]
             child_id == edges[k][2]
             child_idx == BitXor(base, c)
             fixed == FixState(b, child_idx)
         IN  PlaceChildren([fixed EXCEPT !.states[child_idx].check = c],
                           [map EXCEPT ![child_id] = child_idx],
                           base, edges, k + 1)

\* one iteration of the loop over sparse_trie.states
PlaceState(b, map, t, i) ==
    LET idx == map[i]
        edges == t.states[i]
        b1 == [b EXCEPT !.extras[idx].output = t.outputs[i]]
    IN  IF edges = <<>>
        THEN [b |-> b1, map |-> map, result |-> NoError, closed |-> <<>>]
        ELSE LET base == FindBase(b1, edges)
                 ext == IF base >= Size(b1.states) THEN ExtendArray(b1)
                        ELSE [b |-> b1, result |-> NoError, closed |-> <<>>]
             IN  IF ext.result # NoError
                 THEN [b |-> ext.b, map |-> map, result |-> ext.result,
                       closed |-> ext.closed]
                 ELSE LET placed == PlaceChildren(ext.b, map, base, edges, 1)
                      IN  [b |-> [placed.b EXCEPT !.states[idx].base = base,
                                                  !.extras[base].used_base = TRUE],
                           map |-> placed.map,
                           result |-> NoError,
                           closed |-> ext.closed]

-----------------------------------------------------------------------------
(* add_fails *)

Panic == [kind |-> "panic", pattern |-> <<>>]

GetChildIndex(st, idx, c) ==
    IF st[idx].base = BASE_INVALID THEN None
    ELSE LET child_idx == BitXor(st[idx].base, c)
         IN  IF st[child_idx].check = c THEN Some(child_idx) ELSE None

\* for &(c, st_child_idx) in &sparse_trie.states[0]
RECURSIVE FailRoot(_, _, _, _)
FailRoot(st, vis, edges, k) ==
    IF k > Len(edges) THEN [states |-> st, visits |-> vis, result |-> NoError]
    ELSE LET got == GetChildIndex(st, 0, edges[k][1])
         IN  IF ~got.some THEN [states |-> st, visits |-> vis, result |-> Panic]
             ELSE FailRoot([st EXCEPT ![got.val].fail = 0],
                           Push(vis, [da_idx |-> got.val, st_idx |-> edges[k][2]]),
                           edges, k + 1)

\* the walk that gives up after the first miss
FailWalkOnce(st, fail_idx, c) ==
    LET got == GetChildIndex(st, fail_idx, c)
    IN  IF got.some THEN got.val ELSE 0

\* let new_fail_idx = loop { ... }
RECURSIVE FailWalk(_, _, _)
FailWalk(st, fail_idx, c) ==
    LET got == GetChildIndex(st, fail_idx, c)
        next_fail_idx == st[fail_idx].fail
    IN  IF got.some THEN got.val
        ELSE IF fail_idx = 0 /\ next_fail_idx = 0 THEN 0
        ELSE FailWalk(st, next_fail_idx, c)

\* the loop over the edges that pushes no child to visits
RECURSIVE FailChildrenNoPush(_, _, _, _, _)
FailChildrenNoPush(st, vis, da_state_idx, edges, k) ==
    IF k > Len(edges) THEN [states |-> st, visits |-> vis, result |-> NoError]
    ELSE LET c == edges[k][1]
             got == GetChildIndex(st, da_state_idx, c)
             new_fail_idx == FailWalk(st, st[da_state_idx].fail, c)
         IN  IF ~got.some THEN [states |-> st, visits |-> vis, result |-> Panic]
             ELSE IF new_fail_idx > FAIL_MAX
             THEN [states |-> st, visits |-> vis, result |-> AutomatonScale]
             ELSE FailChildrenNoPush([st EXCEPT ![got.val].fail = new_fail_idx],
                                     vis, da_state_idx, edges, k + 1)

\* for &(c, st_child_idx) in &sparse_trie.states[st_state_idx]
RECURSIVE FailChildren(_, _, _, _, _)
FailChildren(st, vis, da_state_idx, edges, k) ==
    IF k > Len(edges) THEN [states |-> st, visits |-> vis, result |-> NoError]
    ELSE LET c == edges[k][1]
             got == GetChildIndex(st, da_state_idx, c)
             new_fail_idx == FailWalk(st, st[da_state_idx].fail, c)
         IN  IF ~got.some THEN [states |-> st, visits |-> vis, result |-> Panic]
             ELSE IF new_fail_idx > FAIL_MAX
             THEN [states |-> st, visits |-> vis, result |-> AutomatonScale]
             ELSE FailChildren([st EXCEPT ![got.val].fail = new_fail_idx],
                               Push(vis, [da_idx |-> got.val, st_idx |-> edges[k][2]]),
                               da_state_idx, edges, k + 1)

-----------------------------------------------------------------------------
(* build_outputs and set_dummy_outputs *)

Output(value, length, is_begin) ==
    [value |-> value, length |-> length, is_begin |-> is_begin]

\* a sentinel that does not begin a run
SentinelNotBegin == Output(VALUE_INVALID, LENGTH_INVALID, FALSE)

Sentinel == Output(VALUE_INVALID, LENGTH_INVALID, TRUE)

ErrorChecker(out) ==
    IF Size(out) > OUTPOS_INVALID THEN AutomatonScale ELSE NoError

\* the copy loop that stops after the first record
CopyRunOne(out, clone_pos) ==
    IF ~out[clone_pos].is_begin THEN Push(out, out[clone_pos]) ELSE out

\* a processed ancestor's run is not copied
CopyRunNone(out, clone_pos) == out

\* while !self.outputs[clone_pos].is_begin() { push; clone_pos += 1 }
RECURSIVE CopyRun(_, _)
CopyRun(out, clone_pos) ==
    IF ~out[clone_pos].is_begin
    THEN CopyRun(Push(out, out[clone_pos]), clone_pos + 1)
    ELSE out

\* the fail-chain loop that appends every record as a run head
RECURSIVE OutputsChainBegin(_, _, _, _)
OutputsChainBegin(st, ex, out, from_idx) ==
    LET da_state_idx == st[from_idx].fail
        output == ex[da_state_idx].output
    IN  IF da_state_idx = 0
        THEN [states |-> st, extras |-> ex, outputs |-> out, result |-> NoError,
              checked |-> <<>>]
        ELSE IF output[1] = VALUE_INVALID
        THEN OutputsChainBegin(st, ex, out, da_state_idx)
        ELSE IF ex[da_state_idx].processed
        THEN LET copied == CopyRun(out, st[da_state_idx].output_pos)
             IN  [states |-> st, extras |-> ex, outputs |-> copied,
                  result |-> ErrorChecker(copied), checked |-> <<Size(copied)>>]
        ELSE OutputsChainBegin([st EXCEPT ![da_state_idx].output_pos = Size(out)],
                               [ex EXCEPT ![da_state_idx].processed = TRUE],
                               Push(out, Output(output[1], output[2], TRUE)),
                               da_state_idx)

\* the fail-chain loop that does not call error_checker after the copy
RECURSIVE OutputsChainNoCheck(_, _, _, _)
OutputsChainNoCheck(st, ex, out, from_idx) ==
    LET da_state_idx == st[from_idx].fail
        output == ex[da_state_idx].output
    IN  IF da_state_idx = 0
        THEN [states |-> st, extras |-> ex, outputs |-> out, result |-> NoError,
              checked |-> <<>>]
        ELSE IF output[1] = VALUE_INVALID
        THEN OutputsChainNoCheck(st, ex, out, da_state_idx)
        ELSE IF ex[da_state_idx].processed
        THEN [states |-> st, extras |-> ex,
              outputs |-> CopyRun(out, st[da_state_idx].output_pos),
              result |-> NoError, checked |-> <<>>]
        ELSE OutputsChainNoCheck([st EXCEPT ![da_state_idx].output_pos = Size(out)],
                                 [ex EXCEPT ![da_state_idx].processed = TRUE],
                                 Push(out, Output(output[1], output[2], FALSE)),
                                 da_state_idx)

\* the loop that follows the fail chain of a new run head; checked is the
\* length of outputs at each call of error_checker, in order
RECURSIVE OutputsChain(_, _, _, _)
OutputsChain(st, ex, out, from_idx) ==
    LET da_state_idx == st[from_idx].fail
        output == ex[da_state_idx].output
    IN  IF da_state_idx = 0
        THEN [states |-> st, extras |-> ex, outputs |-> out, result |-> NoError,
              checked |-> <<>>]
        ELSE IF output[1] = VALUE_INVALID
        THEN OutputsChain(st, ex, out, da_state_idx)
        ELSE IF ex[da_state_idx].processed
        THEN LET copied == CopyRun(out, st[da_state_idx].output_pos)
             IN  [states |-> st, extras |-> ex, outputs |-> copied,
                  result |-> ErrorChecker(copied), checked |-> <<Size(copied)>>]
        ELSE OutputsChain([st EXCEPT ![da_state_idx].output_pos = Size(out)],
                          [ex EXCEPT ![da_state_idx].processed = TRUE],
                          Push(out, Output(output[1], output[2], FALSE)),
                          da_state_idx)

\* the reverse pass that appends a run head with is_begin = false
OutputsVisitNoBegin(st, ex, out, da_state_idx) ==
    LET output == ex[da_state_idx].output
        same == [states |-> st, extras |-> ex, outputs |-> out, result |-> NoError,
                 checked |-> <<>>]
    IN  IF output[1] = VALUE_INVALID THEN same
        ELSE IF ex[da_state_idx].processed THEN same
        ELSE OutputsChain([st EXCEPT ![da_state_idx].output_pos = Size(out)],
                          [ex EXCEPT ![da_state_idx].processed = TRUE],
                          Push(out, Output(output[1], output[2], FALSE)),
                          da_state_idx)

\* the reverse pass that does not mark the state of a run head as processed
OutputsVisitUnmarked(st, ex, out, da_state_idx) ==
    LET output == ex[da_state_idx].output
        same == [states |-> st, extras |-> ex, outputs |-> out, result |-> NoError,
                 checked |-> <<>>]
        pushed == Push(out, Output(output[1], output[2], TRUE))
    IN  IF output[1] = VALUE_INVALID THEN same
        ELSE IF ex[da_state_idx].processed THEN same
        ELSE IF ErrorChecker(pushed) # NoError
        THEN [states |-> [st EXCEPT ![da_state_idx].output_pos = Size(out)],
              extras |-> ex,
              outputs |-> pushed, result |-> ErrorChecker(pushed),
              checked |-> <<Size(pushed)>>]
        ELSE LET chain == OutputsChain(
                              [st EXCEPT ![da_state_idx].output_pos = Size(out)],
                              ex, pushed, da_state_idx)
             IN  [chain EXCEPT !.checked = <<Size(pushed)>> \o @]

\* one iteration of the reverse pass over visits
OutputsVisit(st, ex, out, da_state_idx) ==
    LET output == ex[da_state_idx].output
        same == [states |-> st, extras |-> ex, outputs |-> out, result |-> NoError,
                 checked |-> <<>>]
        pushed == Push(out, Output(output[1], output[2], TRUE))
    IN  IF output[1] = VALUE_INVALID THEN same
        ELSE IF ex[da_state_idx].processed THEN same
        ELSE IF ErrorChecker(pushed) # NoError
        THEN [states |-> [st EXCEPT ![da_state_idx].output_pos = Size(out)],
              extras |-> [ex EXCEPT ![da_state_idx].processed = TRUE],
              outputs |-> pushed, result |-> ErrorChecker(pushed),
              checked |-> <<Size(pushed)>>]
        ELSE LET chain == OutputsChain(
                              [st EXCEPT ![da_state_idx].output_pos = Size(out)],
                              [ex EXCEPT ![da_state_idx].processed = TRUE],
                              pushed, da_state_idx)
             IN  [chain EXCEPT !.checked = <<Size(pushed)>> \o @]

\* set_dummy_outputs that takes the output_pos of the fail of the fail
DummyVisitSkip(st, ex, da_state_idx) ==
    LET fail_idx == st[st[da_state_idx].fail].fail
    IN  IF ex[da_state_idx].processed THEN st
        ELSE IF st[fail_idx].output_pos # OUTPOS_INVALID
        THEN [st EXCEPT ![da_state_idx].output_pos = st[fail_idx].output_pos]
        ELSE st

\* set_dummy_outputs that copies no output_pos
DummyVisitNone(st, ex, da_state_idx) == st

\* one iteration of set_dummy_outputs
DummyVisit(st, ex, da_state_idx) ==
    LET fail_idx == st[da_state_idx].fail
    IN  IF ex[da_state_idx].processed THEN st
        ELSE IF st[fail_idx].output_pos # OUTPOS_INVALID
        THEN [st EXCEPT ![da_state_idx].output_pos = st[fail_idx].output_pos]
        ELSE st

-----------------------------------------------------------------------------
(* The matcher that consumes {states, outputs} *)

\* from state s on byte c: base(s) XOR c if that slot's check is c, else fail(s)
\* and retry; a miss at the root stays at the root
RECURSIVE NextState(_, _, _)
NextState(st, s, c) ==
    LET probe == IF st[s].base = BASE_INVALID THEN None
                 ELSE LET t == BitXor(st[s].base, c)
                      IN  IF st[t].check = c THEN Some(t) ELSE None
    IN  IF probe.some THEN probe.val
        ELSE IF s = 0 THEN 0
        ELSE NextState(st, st[s].fail, c)

\* the records after the first of a run: up to the next is_begin = true
RECURSIVE RunTail(_, _)
RunTail(out, k) ==
    IF k >= Size(out) \/ out[k].is_begin THEN <<>>
    ELSE <<out[k]>> \o RunTail(out, k + 1)

\* the run of a state: the record at output_pos and the records that follow it
\* while is_begin = false
Run(st, out, s) ==
    IF st[s].output_pos = OUTPOS_INVALID THEN <<>>
    ELSE <<out[st[s].output_pos]>> \o RunTail(out, st[s].output_pos + 1)

Emit(st, out, s, end) ==
    LET run == Run(st, out, s)
    IN  [k \in 1..Len(run) |-> <<end - run[k].length, end, run[k].value>>]

-----------------------------------------------------------------------------
(* Inputs *)

Bytes == 0..MaxByte

RECURSIVE StringsOfLen(_)
StringsOfLen(n) ==
    IF n = 0 THEN {<<>>}
    ELSE {Append(s, c) : s \in StringsOfLen(n - 1), c \in Bytes}

Patterns == UNION {StringsOfLen(n) : n \in 0..MaxLen}
Values == 0..MaxValue \cup {VALUE_INVALID}

-----------------------------------------------------------------------------
(* Actions *)

\* new that also rejects init_size = STATE_IDX_INVALID
NewBuilderStrict(size) ==
    IF size >= STATE_IDX_INVALID
    THEN [result |-> InvalidArgument, states |-> Empty, outputs |-> Empty,
          extras |-> Empty, visits |-> Empty, head_idx |-> 0]
    ELSE [result |-> NoError, states |-> Empty, outputs |-> Empty,
          extras |-> Empty, visits |-> Empty, head_idx |-> USIZE_MAX]

\* new(init_size): the error, or the builder; init_capa only reserves memory
NewBuilder(size) ==
    IF size > STATE_IDX_INVALID
    THEN [result |-> InvalidArgument, states |-> Empty, outputs |-> Empty,
          extras |-> Empty, visits |-> Empty, head_idx |-> 0]
    ELSE [result |-> NoError, states |-> Empty, outputs |-> Empty,
          extras |-> Empty, visits |-> Empty, head_idx |-> USIZE_MAX]

\* the state after new(0)
Init ==
    /\ api \in {"build", "build_with_values"}
    /\ init_size = 0
    /\ closed = <<>>
    /\ patvals = <<>>
    /\ trie = SparseTrieNew
    /\ pc = "add"
    /\ err = NoError
    /\ states = Empty
    /\ extras = Empty
    /\ outputs = Empty
    /\ visits = Empty
    /\ head_idx = USIZE_MAX
    /\ state_id_map = Empty
    /\ cur = 0
    /\ hay = <<>>
    /\ mstate = 0
    /\ matches = <<>>

\* build_sparse_trie: one trie.add(pattern, value)? of the loop; build gives
\* the pattern its index as value
Add(pattern, value) ==
    /\ pc = "add"
    /\ value = IF api = "build" THEN Len(patvals) ELSE value
    /\ LET r == SparseTrieAdd(trie, pattern, value)
       IN  /\ trie' = r.trie
           /\ err' = r.result
           /\ pc' = IF r.result = NoError THEN "add" ELSE "error"
    /\ patvals' = Append(patvals, <<pattern, value>>)
    /\ UNCHANGED <<closed, init_size, hay, mstate, matches, api, states, extras, outputs, visits,
                   head_idx, state_id_map, cur>>

\* build_double_array up to the loop: state_id_map and init_array
BuildDoubleArrayInit ==
    /\ pc = "add"
    /\ LET b == InitArray
       IN  /\ states' = b.states
           /\ extras' = b.extras
           /\ head_idx' = b.head_idx
    /\ state_id_map' = [k \in 0..(Size(trie.states) - 1) |->
                          IF k = 0 THEN 0 ELSE USIZE_MAX]
    /\ cur' = 0
    /\ pc' = "place"
    /\ UNCHANGED <<closed, init_size, hay, mstate, matches, api, patvals, trie, err, outputs, visits>>

\* build_double_array: the iteration of trie state cur
Place ==
    /\ pc = "place"
    /\ cur < Size(trie.states)
    /\ LET r == PlaceState(Builder, state_id_map, trie, cur)
       IN  /\ states' = r.b.states
           /\ extras' = r.b.extras
           /\ head_idx' = r.b.head_idx
           /\ state_id_map' = r.map
           /\ closed' = closed \o r.closed
           /\ err' = r.result
           /\ pc' = IF r.result = NoError THEN "place" ELSE "error"
    /\ cur' = cur + 1
    /\ UNCHANGED <<init_size, hay, mstate, matches, api, patvals, trie, outputs, visits>>

\* build_double_array: the root block is closed if no extension closed it
CloseRoot ==
    /\ pc = "place"
    /\ cur = Size(trie.states)
    /\ LET b == IF Size(states) <= FREE_STATES THEN CloseBlock(Builder, 0)
                ELSE Builder
       IN  /\ states' = b.states
           /\ extras' = b.extras
           /\ head_idx' = b.head_idx
    /\ closed' = IF Size(states) <= FREE_STATES THEN Append(closed, 0) ELSE closed
    /\ pc' = "close"
    /\ UNCHANGED <<init_size, hay, mstate, matches, api, patvals, trie, err, outputs, visits, state_id_map, cur>>

\* build_double_array: while self.head_idx != MAX, close the block of head_idx
CloseRest ==
    /\ pc = "close"
    /\ head_idx # USIZE_MAX
    /\ LET b == CloseBlock(Builder, head_idx \div BLOCK_LEN)
       IN  /\ states' = b.states
           /\ extras' = b.extras
           /\ head_idx' = b.head_idx
    /\ closed' = Append(closed, head_idx \div BLOCK_LEN)
    /\ UNCHANGED <<init_size, hay, mstate, matches, api, patvals, trie, pc, err, outputs, visits, state_id_map, cur>>

\* add_fails up to the queue loop: fail(0), and the children of the root
AddFailsInit ==
    /\ pc = "close"
    /\ head_idx = USIZE_MAX
    /\ LET r == FailRoot([states EXCEPT ![0].fail = 0], Empty, trie.states[0], 1)
       IN  /\ states' = r.states
           /\ visits' = r.visits
           /\ err' = r.result
           /\ pc' = IF r.result = NoError THEN "fails" ELSE "error"
    /\ cur' = 0
    /\ UNCHANGED <<closed, init_size, hay, mstate, matches, api, patvals, trie, extras, outputs, head_idx, state_id_map>>

\* add_fails: while vi < visits.len(), the iteration of visits[vi]
AddFailsVisit ==
    /\ pc = "fails"
    /\ cur < Size(visits)
    /\ LET r == FailChildren(states, visits, visits[cur].da_idx,
                             trie.states[visits[cur].st_idx], 1)
       IN  /\ states' = r.states
           /\ visits' = r.visits
           /\ err' = r.result
           /\ pc' = IF r.result = NoError THEN "fails" ELSE "error"
    /\ cur' = cur + 1
    /\ UNCHANGED <<closed, init_size, hay, mstate, matches, api, patvals, trie, extras, outputs, head_idx, state_id_map>>

\* add_fails returns; build_outputs starts at the last of visits
AddFailsDone ==
    /\ pc = "fails"
    /\ cur = Size(visits)
    /\ pc' = "outputs"
    /\ cur' = Size(visits)
    /\ UNCHANGED <<closed, init_size, hay, mstate, matches, api, patvals, trie, err, states, extras, outputs, visits,
                   head_idx, state_id_map>>

\* build_outputs: for sp in visits.iter().rev(), the iteration of visits[cur - 1]
BuildOutputsVisit ==
    /\ pc = "outputs"
    /\ cur > 0
    /\ LET r == OutputsVisit(states, extras, outputs, visits[cur - 1].da_idx)
       IN  /\ states' = r.states
           /\ extras' = r.extras
           /\ outputs' = r.outputs
           /\ err' = r.result
           /\ pc' = IF r.result = NoError THEN "outputs" ELSE "error"
    /\ cur' = cur - 1
    /\ UNCHANGED <<closed, init_size, hay, mstate, matches, api, patvals, trie, visits, head_idx, state_id_map>>

\* build_outputs: the sentinel
BuildOutputsSentinel ==
    /\ pc = "outputs"
    /\ cur = 0
    /\ outputs' = Push(outputs, Sentinel)
    /\ err' = ErrorChecker(outputs')
    /\ pc' = IF err' = NoError THEN "dummy" ELSE "error"
    /\ UNCHANGED <<closed, init_size, hay, mstate, matches, api, patvals, trie, states, extras, visits, head_idx,
                   state_id_map, cur>>

\* set_dummy_outputs: for sp in visits.iter(), the iteration of visits[cur]
SetDummyOutputs ==
    /\ pc = "dummy"
    /\ cur < Size(visits)
    /\ states' = DummyVisit(states, extras, visits[cur].da_idx)
    /\ cur' = cur + 1
    /\ UNCHANGED <<closed, init_size, hay, mstate, matches, api, patvals, trie, pc, err, extras, outputs, visits, head_idx,
                   state_id_map>>

\* build / build_with_values return the automaton {states, outputs}
Finish ==
    /\ pc = "dummy"
    /\ cur = Size(visits)
    /\ pc' = "done"
    /\ UNCHANGED <<closed, init_size, hay, mstate, matches, api, patvals, trie, err, states, extras, outputs, visits,
                   head_idx, state_id_map, cur>>

\* the matcher reads byte c of the haystack
Feed(c) ==
    /\ pc = "done"
    /\ hay' = Append(hay, c)
    /\ mstate' = NextState(states, mstate, c)
    /\ matches' = matches \o Emit(states, outputs, mstate', Len(hay'))
    /\ UNCHANGED <<closed, init_size, api, patvals, trie, pc, err, states, extras, outputs,
                   visits, head_idx, state_id_map, cur>>

Next ==
    \/ \E p \in Patterns, v \in Values \cup 0..(MaxPatterns - 1) :
          /\ Len(patvals) < MaxPatterns
          /\ api = "build_with_values" => v \in Values
          /\ Add(p, v)
    \/ BuildDoubleArrayInit
    \/ Place
    \/ CloseRoot
    \/ CloseRest
    \/ AddFailsInit
    \/ AddFailsVisit
    \/ AddFailsDone
    \/ BuildOutputsVisit
    \/ BuildOutputsSentinel
    \/ SetDummyOutputs
    \/ Finish

Spec == Init /\ [][Next]_vars

\* the sizes given to new
InitSizes ==
    0..NewSizes \cup (STATE_IDX_INVALID - NewSizes)..(STATE_IDX_INVALID + NewSizes)

\* before new: no builder yet, its fields hold placeholders
NewInit ==
    /\ api \in {"build", "build_with_values"}
    /\ init_size \in InitSizes
    /\ closed = <<>>
    /\ patvals = <<>>
    /\ trie = SparseTrieNew
    /\ pc = "new"
    /\ err = NoError
    /\ states = Empty
    /\ extras = Empty
    /\ outputs = Empty
    /\ visits = Empty
    /\ head_idx = 0
    /\ state_id_map = Empty
    /\ cur = 0
    /\ hay = <<>>
    /\ mstate = 0
    /\ matches = <<>>

\* DoubleArrayAhoCorasickBuilder::new(init_size)
New ==
    /\ pc = "new"
    /\ LET r == NewBuilder(init_size)
       IN  /\ err' = r.result
           /\ pc' = IF r.result = NoError THEN "add" ELSE "error"
           /\ states' = r.states
           /\ extras' = r.extras
           /\ outputs' = r.outputs
           /\ visits' = r.visits
           /\ head_idx' = r.head_idx
    /\ UNCHANGED <<closed, init_size, hay, mstate, matches, api, patvals, trie, state_id_map,
                   cur>>

NewNext == New

NewSpec == NewInit /\ [][NewNext]_vars

\* the build followed by the matcher over every haystack of Bytes
MatchNext ==
    \/ Next
    \/ \E c \in Bytes : Len(hay) < MaxHay /\ Feed(c)

MatchSpec == Init /\ [][MatchNext]_vars

\* build from patterns that end in the same byte, so that fail chains pass
\* through several patterns
ChainPatterns == {p \in Patterns : p # <<>> /\ p[Len(p)] = MaxByte}

ChainInit == Init /\ api = "build"

ChainAdd ==
    \E p \in ChainPatterns : Len(patvals) < ChainMax /\ Add(p, Len(patvals))

ChainNext ==
    \/ ChainAdd
    \/ BuildDoubleArrayInit
    \/ Place
    \/ CloseRoot
    \/ CloseRest
    \/ AddFailsInit
    \/ AddFailsVisit
    \/ AddFailsDone
    \/ BuildOutputsVisit
    \/ BuildOutputsSentinel
    \/ SetDummyOutputs
    \/ Finish

ChainSpec == ChainInit /\ [][ChainNext]_vars

\* a step of add_fails
AddFailsStep == AddFailsInit \/ AddFailsVisit \/ AddFailsDone

\* add_fails is a sequential loop: a step of it that can be taken is taken
FairChainSpec == ChainSpec /\ WF_vars(AddFailsStep)

\* build from longer patterns that end in the same byte, so that a state at
\* which no pattern ends has several patterns as proper suffixes
DeepPatterns ==
    {p \in UNION {StringsOfLen(n) : n \in 1..(MaxLen + 1)} : p[Len(p)] = MaxByte}

DeepAdd ==
    \E p \in DeepPatterns : Len(patvals) < MaxPatterns /\ Add(p, Len(patvals))

DeepNext ==
    \/ DeepAdd
    \/ BuildDoubleArrayInit
    \/ Place
    \/ CloseRoot
    \/ CloseRest
    \/ AddFailsInit
    \/ AddFailsVisit
    \/ AddFailsDone
    \/ BuildOutputsVisit
    \/ BuildOutputsSentinel
    \/ SetDummyOutputs
    \/ Finish

DeepSpec == ChainInit /\ [][DeepNext]_vars

\* build from a sorted list of patterns over all the bytes of a block: each
\* single byte, and the two-byte strings over Bytes
WideList ==
    [k \in 1..(BLOCK_LEN + (MaxByte + 1) * (MaxByte + 1)) |->
        IF k <= BLOCK_LEN THEN <<k - 1>>
        ELSE <<(k - BLOCK_LEN - 1) \div (MaxByte + 1),
               (k - BLOCK_LEN - 1) % (MaxByte + 1)>>]

\* the place in WideList of the pattern added last, 0 if there is none
WideLast ==
    IF patvals = <<>> THEN 0
    ELSE CHOOSE k \in 1..Len(WideList) : WideList[k] = patvals[Len(patvals)][1]

WideAdd ==
    \E k \in (WideLast + 1)..Len(WideList) : Add(WideList[k], Len(patvals))

WideNext ==
    \/ WideAdd
    \/ BuildDoubleArrayInit
    \/ Place
    \/ CloseRoot
    \/ CloseRest
    \/ AddFailsInit
    \/ AddFailsVisit
    \/ AddFailsDone
    \/ BuildOutputsVisit
    \/ BuildOutputsSentinel
    \/ SetDummyOutputs
    \/ Finish

WideSpec == ChainInit /\ [][WideNext]_vars

-----------------------------------------------------------------------------
(* The documented examples.  Letters are bytes of ByteBits bits: the low    *)
(* three bits of the ASCII code ('a' = 1 ... 'e' = 5, 'h' = 0, 'i' = 1,     *)
(* 'r' = 2, 's' = 3), except 'u', which would coincide with 'e' and is 6.   *)

\* "bcd", "ab", "a" over "abcd"
DocBuild ==
    [api |-> "build",
     patvals |-> << <<(<<2, 3, 4>>), 0>>, <<(<<1, 2>>), 1>>, <<(<<1>>), 2>> >>,
     haystack |-> <<1, 2, 3, 4>>]

\* ("bcd", 0), ("ab", 1), ("a", 2), ("e", 1) over "abcde"
DocBuildWithValues ==
    [api |-> "build_with_values",
     patvals |-> << <<(<<2, 3, 4>>), 0>>, <<(<<1, 2>>), 1>>, <<(<<1>>), 2>>,
                    <<(<<5>>), 1>> >>,
     haystack |-> <<1, 2, 3, 4, 5>>]

\* "a", "ab", "abc" over "abc"
DocNested ==
    [api |-> "build",
     patvals |-> << <<(<<1>>), 0>>, <<(<<1, 2>>), 1>>, <<(<<1, 2, 3>>), 2>> >>,
     haystack |-> <<1, 2, 3>>]

\* "he", "she", "his", "hers" over "ushers"
DocUshers ==
    [api |-> "build",
     patvals |-> << <<(<<0, 5>>), 0>>, <<(<<3, 0, 5>>), 1>>, <<(<<0, 1, 3>>), 2>>,
                    <<(<<0, 5, 2, 3>>), 3>> >>,
     haystack |-> <<6, 3, 0, 5, 2, 3>>]

DocScenarios == {DocBuild, DocBuildWithValues, DocNested, DocUshers}

IsPrefix(a, b) == Len(a) <= Len(b) /\ SubSeq(b, 1, Len(a)) = a

\* the scenario being run
InScenario(s) == api = s.api /\ IsPrefix(patvals, s.patvals)

DocAdd ==
    \E s \in DocScenarios :
        /\ InScenario(s)
        /\ Len(patvals) < Len(s.patvals)
        /\ Add(s.patvals[Len(patvals) + 1][1], s.patvals[Len(patvals) + 1][2])

DocStart ==
    /\ \E s \in DocScenarios : InScenario(s) /\ patvals = s.patvals
    /\ BuildDoubleArrayInit

DocFeed ==
    \E s \in DocScenarios :
        /\ InScenario(s) /\ patvals = s.patvals
        /\ Len(hay) < Len(s.haystack)
        /\ Feed(s.haystack[Len(hay) + 1])

DocNext ==
    \/ DocAdd
    \/ DocStart
    \/ Place
    \/ CloseRoot
    \/ CloseRest
    \/ AddFailsInit
    \/ AddFailsVisit
    \/ AddFailsDone
    \/ BuildOutputsVisit
    \/ BuildOutputsSentinel
    \/ SetDummyOutputs
    \/ Finish
    \/ DocFeed

DocSpec == Init /\ [][DocNext]_vars

-----------------------------------------------------------------------------
(* What the patterns given to add say about the automaton *)

PatternOf(k) == patvals[k][1]
ValueOf(k) == patvals[k][2]
Record(k) == <<ValueOf(k), Len(PatternOf(k))>>

NonEmptyPatterns == \A k \in 1..Len(patvals) : PatternOf(k) # <<>>

\* the prefixes of the patterns: the paths of the trie
Prefixes ==
    {<<>>} \cup UNION {{SubSeq(PatternOf(k), 1, n) : n \in 0..Len(PatternOf(k))} :
                          k \in 1..Len(patvals)}

IsSuffix(a, b) == Len(a) <= Len(b) /\ SubSeq(b, Len(b) - Len(a) + 1, Len(b)) = a
IsProperSuffix(a, b) == Len(a) < Len(b) /\ IsSuffix(a, b)

\* the trie state reached from state_id by w[k..], USIZE_MAX if there is none
RECURSIVE TrieStateFrom(_, _, _)
TrieStateFrom(state_id, w, k) ==
    IF k > Len(w) THEN state_id
    ELSE LET got == SparseTrieGet(trie, state_id, w[k])
         IN  IF got.some THEN TrieStateFrom(got.val, w, k + 1) ELSE USIZE_MAX

TrieStateOf(w) == TrieStateFrom(0, w, 1)

\* the double-array slot of the state whose path spells w
SlotOf(w) ==
    IF TrieStateOf(w) \in DOMAIN state_id_map THEN state_id_map[TrieStateOf(w)]
    ELSE USIZE_MAX

\* the longest proper suffix of w that is a prefix of some pattern
LongestSuffixPrefix(w) ==
    CHOOSE u \in Prefixes :
        /\ IsProperSuffix(u, w)
        /\ \A v \in Prefixes : IsProperSuffix(v, w) => Len(v) <= Len(u)

\* the patterns, by index, that end at slot x
PatternsAt(x) == {k \in 1..Len(patvals) : SlotOf(PatternOf(k)) = x}

\* s and the states on its fail chain, the root left out
RECURSIVE FailChain(_)
FailChain(s) == IF s = 0 THEN {} ELSE {s} \cup FailChain(states[s].fail)

\* build_double_array has returned
Placed ==
    \/ pc = "close" /\ head_idx = USIZE_MAX
    \/ pc \in {"fails", "outputs", "dummy", "done"}

TrieStates == DOMAIN trie.states
EdgesOf(t) == {trie.states[t][k] : k \in 1..Len(trie.states[t])}
ParentOf(t) == CHOOSE p \in TrieStates : \E e \in EdgesOf(p) : e[2] = t

RunRecords(s) ==
    LET run == Run(states, outputs, s)
    IN  [k \in 1..Len(run) |-> <<run[k].value, run[k].length>>]

\* the sequence recs holds exactly the records of the patterns K, each once
SameBag(recs, K) ==
    \A r \in {recs[j] : j \in 1..Len(recs)} \cup {Record(k) : k \in K} :
        Cardinality({j \in 1..Len(recs) : recs[j] = r})
            = Cardinality({k \in K : Record(k) = r})

-----------------------------------------------------------------------------
(* C1: for distinct non-empty patterns and every haystack, the matcher emits  *)
(* at each offset e exactly the (value, length) of the patterns that occur in *)
(* the haystack ending at e, each once, with start = e - length.              *)

MatchesAt(e) == SelectSeq(matches, LAMBDA m : m[2] = e)

MatcherComplete ==
    (pc = "done" /\ NonEmptyPatterns) =>
        \A e \in 1..Len(hay) :
            LET got == MatchesAt(e)
                occur == {k \in 1..Len(patvals) :
                            IsSuffix(PatternOf(k), SubSeq(hay, 1, e))}
            IN  /\ SameBag([j \in 1..Len(got) |-> <<got[j][3], e - got[j][1]>>], occur)
                /\ Len(got) = Cardinality(occur)

\* two patterns end at the last offset, after the matcher went through a miss
MatcherCompleteWitness ==
    /\ pc = "done" /\ NonEmptyPatterns
    /\ Len(hay) = MaxHay
    /\ Len(MatchesAt(MaxHay)) >= 2
    /\ MatchesAt(1) = <<>>
    /\ mstate # 0 /\ states[mstate].fail # 0

-----------------------------------------------------------------------------
(* C2: after add_fails, fail(s) of the state spelling w is the slot of the    *)
(* longest proper suffix of w that is a prefix of some pattern (slot 0 if     *)
(* only the empty one is); fail(0) = 0 and every depth-1 state has fail 0.    *)

FailLinksRight ==
    pc \in {"outputs", "dummy", "done"} =>
        /\ states[0].fail = 0
        /\ \A w \in Prefixes \ {<<>>} :
              /\ SlotOf(w) \in DOMAIN states
              /\ states[SlotOf(w)].fail = SlotOf(LongestSuffixPrefix(w))
              /\ Len(w) = 1 => states[SlotOf(w)].fail = 0

\* a state whose fail is found only at the second step of the walk
FailLinksRightWitness ==
    /\ pc = "outputs"
    /\ \E w \in Prefixes :
          /\ Len(w) = 3
          /\ Len(LongestSuffixPrefix(w)) = 1
          /\ Len(LongestSuffixPrefix(SubSeq(w, 1, 2))) = 1
          /\ states[SlotOf(w)].fail # 0

-----------------------------------------------------------------------------
(* C3: after a successful build from non-empty patterns, the run of every     *)
(* placed non-root state s is, as a multiset, the (value, length) of the      *)
(* patterns ending at s or at a state on the fail chain of s; output_pos(s)   *)
(* is unset exactly when there is no such pattern.                            *)

OutputsComplete ==
    (pc = "done" /\ NonEmptyPatterns) =>
        \A w \in Prefixes \ {<<>>} :
            LET s == SlotOf(w)
                ending == UNION {PatternsAt(x) : x \in FailChain(s)}
            IN  /\ SameBag(RunRecords(s), ending)
                /\ (states[s].output_pos = OUTPOS_INVALID) <=> (ending = {})

\* a run was copied from a processed ancestor, a state at which no pattern
\* ends has a run, and a state has a run of two records
OutputsCompleteWitness ==
    /\ pc = "done" /\ NonEmptyPatterns
    /\ Size(outputs) > Len(patvals) + 1
    /\ \E w \in Prefixes \ {<<>>} :
          PatternsAt(SlotOf(w)) = {} /\ Len(RunRecords(SlotOf(w))) >= 1
    /\ \E w \in Prefixes \ {<<>>} : Len(RunRecords(SlotOf(w))) >= 2

-----------------------------------------------------------------------------
(* C4, as claimed: after a successful build the run of every state with       *)
(* output_pos set starts with a record with is_begin = true, the only one of  *)
(* the run, and ends just before the next record with is_begin = true.        *)

\* the records from pos + 1 up to the next is_begin = true are not run heads,
\* and that next run head exists
RunEnds(pos) ==
    \E e \in (pos + 1)..(Size(outputs) - 1) :
        /\ outputs[e].is_begin
        /\ \A j \in (pos + 1)..(e - 1) : ~outputs[j].is_begin

RunsStartWithBegin ==
    pc = "done" =>
        \A s \in DOMAIN states :
            states[s].output_pos # OUTPOS_INVALID =>
                /\ states[s].output_pos \in DOMAIN outputs
                /\ outputs[states[s].output_pos].is_begin
                /\ RunEnds(states[s].output_pos)

(* C4, amended: the run of every state with output_pos set is a contiguous    *)
(* subarray of outputs that starts at output_pos, at a record of a pattern,   *)
(* and ends just before the next record with is_begin = true, which exists;   *)
(* its first record has is_begin = true exactly when the longest pattern that *)
(* is a suffix of the state's path is not a proper suffix of another pattern. *)

\* the longest non-empty pattern, by index, that is a suffix of w
LongestPatternIn(w) ==
    CHOOSE k \in 1..Len(patvals) :
        /\ PatternOf(k) # <<>> /\ IsSuffix(PatternOf(k), w)
        /\ \A j \in 1..Len(patvals) :
              (PatternOf(j) # <<>> /\ IsSuffix(PatternOf(j), w))
                  => Len(PatternOf(j)) <= Len(PatternOf(k))

RunsContiguous ==
    pc = "done" =>
        /\ \A s \in DOMAIN states :
              states[s].output_pos # OUTPOS_INVALID =>
                  /\ states[s].output_pos \in DOMAIN outputs
                  /\ outputs[states[s].output_pos].value # VALUE_INVALID
                  /\ RunEnds(states[s].output_pos)
                  /\ \E w \in Prefixes \ {<<>>} : SlotOf(w) = s
        /\ \A w \in Prefixes \ {<<>>} :
              states[SlotOf(w)].output_pos # OUTPOS_INVALID =>
                  LET first == outputs[states[SlotOf(w)].output_pos]
                      k == LongestPatternIn(w)
                  IN  /\ <<first.value, first.length>> = Record(k)
                      /\ first.is_begin <=>
                            ~\E j \in 1..Len(patvals) :
                                IsProperSuffix(PatternOf(k), PatternOf(j))

\* a state whose run starts at a record with is_begin = false, and runs on
RunsContiguousWitness ==
    /\ pc = "done"
    /\ \E s \in DOMAIN states :
          /\ states[s].output_pos # OUTPOS_INVALID
          /\ ~outputs[states[s].output_pos].is_begin
          /\ ~outputs[states[s].output_pos + 1].is_begin

-----------------------------------------------------------------------------
(* C5: build_double_array gives every trie state its own slot: state_id_map   *)
(* is injective, slot 0 is the root's alone, the edges of one parent land in  *)
(* different slots, no two states have the same base, and a slot i holding a  *)
(* non-root state with check(i) = c has exactly one p with base(p) set and    *)
(* base(p) XOR c = i, its trie parent.                                        *)

UniquePlacement ==
    Placed =>
        /\ \A t \in TrieStates : state_id_map[t] \in DOMAIN states
        /\ \A t, u \in TrieStates : state_id_map[t] = state_id_map[u] => t = u
        /\ \A t \in TrieStates : state_id_map[t] = 0 => t = 0
        /\ \A p \in TrieStates : \A e, f \in EdgesOf(p) :
              /\ state_id_map[e[2]] = BitXor(states[state_id_map[p]].base, e[1])
              /\ state_id_map[e[2]] = state_id_map[f[2]] => e = f
        /\ \A p, q \in TrieStates :
              (/\ p # q
               /\ states[state_id_map[p]].base # BASE_INVALID
               /\ states[state_id_map[q]].base # BASE_INVALID)
                  => states[state_id_map[p]].base # states[state_id_map[q]].base
        /\ \A t \in TrieStates \ {0} :
              LET i == state_id_map[t]
                  c == states[i].check
              IN  {x \in DOMAIN states :
                      /\ states[x].base # BASE_INVALID
                      /\ BitXor(states[x].base, c) = i}
                  = {state_id_map[ParentOf(t)]}

\* the array was extended: a state of the first block has its children in
\* the second, and a state has two children
UniquePlacementWitness ==
    /\ Placed
    /\ Size(states) > BLOCK_LEN
    /\ \E p \in TrieStates \ {0} :
          /\ state_id_map[p] < BLOCK_LEN
          /\ states[state_id_map[p]].base # BASE_INVALID
          /\ states[state_id_map[p]].base >= BLOCK_LEN
    /\ \E q \in TrieStates : Cardinality(EdgesOf(q)) = 2

-----------------------------------------------------------------------------
(* C6: after build_double_array the probe base(p) XOR c with check = c, from  *)
(* a placed state p with base set, succeeds only on the slot of the child of  *)
(* p by c: never on an unclaimed slot, on slot 0 or on another state's child. *)

AllBytes == 0..(BLOCK_LEN - 1)

NoSpuriousChild ==
    Placed =>
        \A p \in TrieStates : \A c \in AllBytes :
            LET got == GetChildIndex(states, state_id_map[p], c)
            IN  got.some =>
                    \E e \in EdgesOf(p) : e[1] = c /\ state_id_map[e[2]] = got.val

ClaimedSlots == {state_id_map[t] : t \in TrieStates}

\* a probe by byte 0 lands on a slot that was never claimed, and one lands on
\* slot 0: both would succeed on the check the slots had before the repair
NoSpuriousChildWitness ==
    /\ Placed
    /\ \E p \in TrieStates :
          /\ states[state_id_map[p]].base # BASE_INVALID
          /\ states[state_id_map[p]].base \notin ClaimedSlots
          /\ states[states[state_id_map[p]].base].check # 0
    /\ \E q \in TrieStates : states[state_id_map[q]].base = 0

-----------------------------------------------------------------------------
(* C7, as claimed: build from "bcd", "ab", "a" and the matcher over "abcd"    *)
(* give (0,1,2), (1,4,0); build_with_values from ("bcd",0), ("ab",1),         *)
(* ("a",2), ("e",1) and "abcde" give (0,1,2), (1,4,0), (4,5,1).               *)

Ran(s) == pc = "done" /\ api = s.api /\ patvals = s.patvals /\ hay = s.haystack

-----------------------------------------------------------------------------
(* C8, as claimed: an add of a byte string that was added before fails with   *)
(* DuplicatePattern carrying the pattern, whatever the two values, and no     *)
(* automaton is built; any other pattern is accepted.                         *)

IsDuplicate(k) == \E j \in 1..(k - 1) : PatternOf(j) = PatternOf(k)

-----------------------------------------------------------------------------
(* C9: after every sequence of add calls that the sparse trie accepts, the    *)
(* root has no output: its value is VALUE_INVALID.                            *)

RootHasNoOutput ==
    (pc = "add" /\ err = NoError) => trie.outputs[0][1] = VALUE_INVALID

-----------------------------------------------------------------------------
(* C10: the build from no pattern succeeds with a root-only automaton: states *)
(* has BLOCK_LEN slots, none with base or output_pos set, and outputs is the  *)
(* sentinel (VALUE_INVALID, LENGTH_INVALID, is_begin = true) alone.           *)

EmptySetAutomaton ==
    (patvals = <<>> /\ pc \in {"dummy", "done"}) =>
        /\ Size(states) = BLOCK_LEN
        /\ \A i \in DOMAIN states :
              states[i].base = BASE_INVALID /\ states[i].output_pos = OUTPOS_INVALID
        /\ Size(outputs) = 1
        /\ outputs[0] = [value |-> VALUE_INVALID, length |-> LENGTH_INVALID,
                         is_begin |-> TRUE]

EmptySetAutomatonWitness == patvals = <<>> /\ pc = "done" /\ err = NoError

-----------------------------------------------------------------------------
(* C11: new(init_size) returns InvalidArgument exactly when init_size is      *)
(* above STATE_IDX_INVALID, so STATE_IDX_INVALID + 1 is rejected and every    *)
(* smaller size gives a builder; the builder has empty states, outputs,       *)
(* extras and visits, and head_idx at the no-free-slot sentinel.              *)

-----------------------------------------------------------------------------
(* C12, as claimed: the check of slot 0, set to 0 by init_array, is never     *)
(* overwritten: check(0) = 0 in every state during and after                  *)
(* build_double_array.                                                        *)

ArrayBuilt == pc \in {"place", "close", "fails", "outputs", "dummy", "done"}

RootCheckStaysZero == ArrayBuilt => states[0].check = 0

(* C12, amended: check(0) is 0 from init_array until block 0 is closed; the   *)
(* repair pass of block 0 sets it to the smallest slot of block 0 that is no  *)
(* state's base, which is 0 exactly when no state has base 0, and nothing     *)
(* changes it afterwards.                                                     *)

\* block 0 was closed: by extend_array, or at the end of build_double_array
RootBlockClosed == pc # "place" \/ Size(states) > FREE_STATES

BasesInUse == {states[i].base : i \in DOMAIN states} \ {BASE_INVALID}

RootCheckRepaired ==
    ArrayBuilt =>
        IF RootBlockClosed
        THEN /\ states[0].check \in 0..(BLOCK_LEN - 1) \ BasesInUse
             /\ \A k \in 0..(states[0].check - 1) : k \in BasesInUse
             /\ (states[0].check = 0) <=> (0 \notin BasesInUse)
        ELSE states[0].check = 0

\* block 0 was closed by extend_array with base 0 in use, and states were
\* placed after that
RootCheckRepairedWitness ==
    /\ Placed
    /\ Size(states) > BLOCK_LEN
    /\ states[0].check # 0
    /\ \E t \in TrieStates : state_id_map[t] >= BLOCK_LEN

-----------------------------------------------------------------------------
(* C13: every trie edge is found again in the double array: from the moment   *)
(* the children of a trie state p are placed, through every later             *)
(* extend_array, close_block and repair pass and at every point of add_fails, *)
(* get_child_index(slot(p), c) is slot(child) for every edge (p, c, child),   *)
(* so no unwrap of add_fails fails.                                           *)

\* the trie states whose children build_double_array has placed
ChildrenPlaced == {p \in TrieStates : pc = "place" => p < cur}

EdgesFound ==
    /\ err # Panic
    /\ ArrayBuilt =>
          \A p \in ChildrenPlaced : \A e \in EdgesOf(p) :
              /\ state_id_map[p] \in DOMAIN states
              /\ GetChildIndex(states, state_id_map[p], e[1]) = Some(state_id_map[e[2]])

\* add_fails has looked up every edge, after block 0 was closed and repaired
\* by extend_array with states placed before and after it
EdgesFoundWitness ==
    /\ pc = "fails" /\ cur = Size(visits)
    /\ Size(states) > BLOCK_LEN
    /\ states[0].check # 0
    /\ \E t, u \in TrieStates \ {0} :
          /\ state_id_map[t] < BLOCK_LEN /\ state_id_map[u] >= BLOCK_LEN
          /\ EdgesOf(t) # {}

-----------------------------------------------------------------------------
(* C14: in the reverse pass of build_outputs, when the fail-chain walk from   *)
(* a newly appended run head reaches a pattern-terminal state that is already *)
(* processed, the record at that state's output_pos has is_begin = false, and *)
(* the copy loop appends that state's whole run, from output_pos up to the    *)
(* next record with is_begin = true, and stops there: at the appended head at *)
(* the latest, which is not copied.                                           *)

\* the first processed pattern-terminal state on the fail chain of s, 0 if the
\* chain reaches the root first
RECURSIVE HitProcessed(_)
HitProcessed(s) ==
    LET d == states[s].fail
    IN  IF d = 0 THEN 0
        ELSE IF extras[d].output[1] # VALUE_INVALID /\ extras[d].processed THEN d
        ELSE HitProcessed(d)

\* the pattern-terminal states on the fail chain of s before HitProcessed(s)
RECURSIVE FreshOnChain(_)
FreshOnChain(s) ==
    LET d == states[s].fail
    IN  IF d = 0 THEN {}
        ELSE IF extras[d].output[1] = VALUE_INVALID THEN FreshOnChain(d)
        ELSE IF extras[d].processed THEN {}
        ELSE {d} \cup FreshOnChain(d)

\* the reverse pass is at a state that becomes a run head
AtNewHead ==
    /\ pc = "outputs" /\ cur > 0
    /\ extras[visits[cur - 1].da_idx].output[1] # VALUE_INVALID
    /\ ~extras[visits[cur - 1].da_idx].processed

CopiesWholeRun ==
    [][(AtNewHead /\ HitProcessed(visits[cur - 1].da_idx) # 0) =>
          LET h == visits[cur - 1].da_idx
              x == HitProcessed(h)
              pos == states[x].output_pos
              run == Run(states, outputs, x)
              head_pos == Size(outputs)
              fresh == Cardinality(FreshOnChain(h))
          IN  /\ pos \in DOMAIN outputs
              /\ ~outputs[pos].is_begin
              /\ \A k \in 1..Len(run) : ~run[k].is_begin
              /\ pos + Len(run) <= head_pos
              /\ err' = NoError
              /\ outputs'[head_pos].is_begin
              /\ Size(outputs') = head_pos + 1 + fresh + Len(run)
              /\ \A k \in 0..(head_pos - 1) : outputs'[k] = outputs[k]
              /\ \A k \in 1..Len(run) :
                    outputs'[head_pos + fresh + k] = run[k]]_vars

\* a run of two records was copied
CopiesWholeRunWitness ==
    /\ pc = "outputs"
    /\ \E i, k \in DOMAIN outputs :
          /\ i + 1 < k /\ k + 1 \in DOMAIN outputs
          /\ outputs[i] = outputs[k] /\ outputs[i + 1] = outputs[k + 1]
          /\ ~outputs[i].is_begin /\ ~outputs[i + 1].is_begin

-----------------------------------------------------------------------------
(* C15: whenever remove_invalid_checks runs on a block (at the close of block *)
(* 0, or of a block for which head_idx lies below the block's end), the block *)
(* holds a slot with used_base = false, so the search for unused_base does    *)
(* not end at the block's end index.                                          *)

\* the iteration of build_double_array that comes next calls extend_array
PlaceExtends ==
    /\ pc = "place" /\ cur < Size(trie.states)
    /\ trie.states[cur] # <<>>
    /\ FindBase(Builder, trie.states[cur]) >= Size(states)

\* the next step calls close_block(block_idx): from extend_array, for the
\* root block at the end of build_double_array, or from its last loop
CloseBlockDue(block_idx) ==
    \/ /\ PlaceExtends /\ FREE_STATES <= Size(states)
       /\ Size(states) + BLOCK_LEN <= STATE_IDX_INVALID
       /\ block_idx = (Size(states) - FREE_STATES) \div BLOCK_LEN
    \/ /\ pc = "place" /\ cur = Size(trie.states)
       /\ Size(states) <= FREE_STATES /\ block_idx = 0
    \/ /\ pc = "close" /\ head_idx # USIZE_MAX
       /\ block_idx = head_idx \div BLOCK_LEN

\* the next step calls remove_invalid_checks(block_idx); extend_array leaves
\* head_idx alone unless the free list is empty
RepairDue(block_idx) ==
    /\ CloseBlockDue(block_idx)
    /\ block_idx = 0 \/ head_idx < block_idx * BLOCK_LEN + BLOCK_LEN

Blocks == 0..((Size(states) \div BLOCK_LEN) - 1)
SlotsOf(block_idx) == (block_idx * BLOCK_LEN)..(block_idx * BLOCK_LEN + BLOCK_LEN - 1)

UnusedBaseExists ==
    \A block_idx \in Blocks :
        /\ RepairDue(block_idx) =>
              /\ UnusedBase(Builder, block_idx) # block_idx * BLOCK_LEN + BLOCK_LEN
              /\ \E k \in SlotsOf(block_idx) : ~extras[k].used_base
        /\ (block_idx = 0 \/ \E k \in SlotsOf(block_idx) : ~extras[k].used_index)
              => \E k \in SlotsOf(block_idx) : ~extras[k].used_base

\* the repair pass is about to run on a block half of whose slots are bases,
\* the first slot among them
UnusedBaseExistsWitness ==
    \E block_idx \in Blocks :
        /\ RepairDue(block_idx)
        /\ extras[block_idx * BLOCK_LEN].used_base
        /\ 2 * Cardinality({k \in SlotsOf(block_idx) : extras[k].used_base})
              >= BLOCK_LEN

-----------------------------------------------------------------------------
(* C16: on every call from the placer, find_base returns either a base below  *)
(* states.len() with used_base false whose slot base XOR c has used_index     *)
(* false for every edge label c of the state being placed, or exactly         *)
(* states.len(); in the second case one extend_array makes that base valid,   *)
(* so fix_state is called only on slots in range with used_index false.       *)

\* base can take the children of edges in the builder b
BaseFits(b, base, edges) ==
    /\ base \in DOMAIN b.extras
    /\ ~b.extras[base].used_base
    /\ \A k \in 1..Len(edges) :
          /\ BitXor(base, edges[k][1]) \in DOMAIN b.extras
          /\ ~b.extras[BitXor(base, edges[k][1])].used_index
    /\ \A j, k \in 1..Len(edges) :
          j # k => BitXor(base, edges[j][1]) # BitXor(base, edges[k][1])

\* the iteration of build_double_array that comes next calls find_base
FindBaseDue ==
    pc = "place" /\ cur < Size(trie.states) /\ trie.states[cur] # <<>>

FindBaseFits ==
    FindBaseDue =>
        LET edges == trie.states[cur]
            base == FindBase(Builder, edges)
            ext == ExtendArray(Builder)
        IN  IF base < Size(states) THEN BaseFits(Builder, base, edges)
            ELSE /\ base = Size(states)
                 /\ ext.result = NoError
                 /\ Size(ext.b.states) = Size(states) + BLOCK_LEN
                 /\ BaseFits(ext.b, base, edges)

\* the array is extended a second time, for a state with two children
FindBaseFitsWitness ==
    /\ PlaceExtends
    /\ Len(trie.states[cur]) = 2
    /\ Size(states) > BLOCK_LEN

-----------------------------------------------------------------------------
(* C17: blocks are closed in ascending order: at every call of close_block(b) *)
(* no slot of a block below b is in the free list or has used_index false,    *)
(* and b is above every block closed before, so no block is closed twice;     *)
(* when build_double_array returns the free list is empty and every slot has  *)
(* used_index set.                                                            *)

\* the slots reached from idx by next, up to the return to head_idx, in n steps
\* at most
RECURSIVE FreeFrom(_, _)
FreeFrom(idx, n) ==
    IF n = 0 \/ idx \notin DOMAIN extras THEN <<>>
    ELSE IF extras[idx].next = head_idx THEN <<idx>>
    ELSE <<idx>> \o FreeFrom(extras[idx].next, n - 1)

\* the free list, from head_idx on
FreeList == IF head_idx = USIZE_MAX THEN <<>> ELSE FreeFrom(head_idx, Size(extras))

FreeSlots == {FreeList[k] : k \in 1..Len(FreeList)}

ClosedInOrder ==
    /\ \A i, j \in 1..Len(closed) : i < j => closed[i] < closed[j]
    /\ \A block_idx \in Blocks :
          CloseBlockDue(block_idx) =>
              /\ \A k \in 1..Len(closed) : closed[k] < block_idx
              /\ \A i \in 0..(block_idx * BLOCK_LEN - 1) :
                    extras[i].used_index /\ i \notin FreeSlots
    /\ Placed =>
          /\ head_idx = USIZE_MAX /\ FreeSlots = {}
          /\ \A i \in DOMAIN extras : extras[i].used_index

\* the third block is about to be closed, after the first two
ClosedInOrderWitness ==
    /\ closed = <<0, 1>>
    /\ CloseBlockDue(2)

-----------------------------------------------------------------------------
(* C18: between any two allocator operations (init_array, fix_state,          *)
(* extend_array, close_block) the free list is a well-formed circular doubly  *)
(* linked list (prev[next[i]] = i and next[prev[i]] = i for every member)     *)
(* whose members are exactly the slots with used_index false, reached from    *)
(* head_idx in strictly ascending order; head_idx is the smallest free slot,  *)
(* and the sentinel exactly when no slot is free.                             *)

Min(S) == CHOOSE x \in S : \A y \in S : x <= y
Max(S) == CHOOSE x \in S : \A y \in S : y <= x

WellFormed(b) ==
    LET free == {i \in DOMAIN b.extras : ~b.extras[i].used_index}
    IN  /\ DOMAIN b.extras = DOMAIN b.states
        /\ (b.head_idx = USIZE_MAX) <=> (free = {})
        /\ free # {} =>
              /\ b.head_idx = Min(free)
              /\ \A i \in free :
                    /\ b.extras[i].next \in free /\ b.extras[i].prev \in free
                    /\ b.extras[b.extras[i].next].prev = i
                    /\ b.extras[b.extras[i].prev].next = i
                    /\ b.extras[i].next =
                          IF i = Max(free) THEN Min(free)
                          ELSE Min({j \in free : j > i})

\* the builders between the calls of fix_state of the loop of close_block
RECURSIVE FixSteps(_, _)
FixSteps(b, end_idx) ==
    {b} \cup IF b.head_idx < end_idx /\ b.head_idx # USIZE_MAX
             THEN FixSteps(FixState(b, b.head_idx), end_idx)
             ELSE {}

\* the builders between the allocator operations of close_block(block_idx)
CloseSteps(b, block_idx) ==
    FixSteps(IF block_idx = 0 \/ b.head_idx < block_idx * BLOCK_LEN + BLOCK_LEN
             THEN RemoveInvalidChecks(b, block_idx) ELSE b,
             block_idx * BLOCK_LEN + BLOCK_LEN)

\* the builders between the allocator operations of the iteration of
\* build_double_array that comes next
PlaceSteps ==
    LET edges == trie.states[cur]
        base == FindBase(Builder, edges)
        old_len == Size(states)
        ext == IF base >= old_len THEN ExtendArray(Builder).b ELSE Builder
    IN  (IF base >= old_len
         THEN {ExtendLink(Builder)} \cup
              (IF FREE_STATES <= old_len
               THEN CloseSteps(ExtendLink(Builder),
                               (old_len - FREE_STATES) \div BLOCK_LEN)
               ELSE {})
         ELSE {})
        \cup {PlaceChildren(ext, state_id_map, base, SubSeq(edges, 1, k), 1).b :
                  k \in 0..Len(edges)}

FreeListWellFormed ==
    ArrayBuilt =>
        /\ WellFormed(Builder)
        /\ Len(FreeList) = Cardinality(FreeSlots)
        /\ FreeSlots = {i \in DOMAIN extras : ~extras[i].used_index}
        /\ \A k \in 1..(Len(FreeList) - 1) : FreeList[k] < FreeList[k + 1]
        /\ FindBaseDue => \A b \in PlaceSteps : WellFormed(b)
        /\ \A block_idx \in Blocks :
              (CloseBlockDue(block_idx) /\ ~FindBaseDue)
                  => \A b \in CloseSteps(Builder, block_idx) : WellFormed(b)

\* extend_array is about to link a new block to a free list that is not empty
\* and skips used slots
FreeListWellFormedWitness ==
    /\ PlaceExtends
    /\ head_idx # USIZE_MAX
    /\ \E k \in 1..(Len(FreeList) - 1) : FreeList[k] + 1 < FreeList[k + 1]

-----------------------------------------------------------------------------
(* C19: add_fails terminates for every trie.  A fail value is read only after *)
(* it was assigned: when a state of depth d is dequeued every state of depth  *)
(* <= d has its fail, and the fail of a state is a strictly shallower state   *)
(* that has its fail too, so every walk ends at a found child or at the root; *)
(* every non-root placed state is pushed to visits exactly once, in           *)
(* non-decreasing depth order.                                                *)

\* the path of the state at slot x, and its depth
PathOf(x) == CHOOSE w \in Prefixes : SlotOf(w) = x
DepthOf(x) == Len(PathOf(x))

\* the slots whose fail add_fails has assigned
FailAssigned == {0} \cup {visits[k].da_idx : k \in DOMAIN visits}

FailsInOrder ==
    pc \in {"fails", "outputs", "dummy", "done"} =>
        /\ states[0].fail = 0
        /\ \A k \in DOMAIN visits :
              /\ visits[k].st_idx \in TrieStates \ {0}
              /\ visits[k].da_idx = state_id_map[visits[k].st_idx]
        /\ \A j, k \in DOMAIN visits :
              j < k => /\ visits[j].da_idx # visits[k].da_idx
                       /\ DepthOf(visits[j].da_idx) <= DepthOf(visits[k].da_idx)
        /\ \A x \in FailAssigned \ {0} :
              /\ states[x].fail \in FailAssigned
              /\ DepthOf(states[x].fail) < DepthOf(x)
        /\ (pc = "fails" /\ cur < Size(visits)) =>
              \A w \in Prefixes :
                  Len(w) <= DepthOf(visits[cur].da_idx) => SlotOf(w) \in FailAssigned
        /\ (pc # "fails" \/ cur = Size(visits)) =>
              FailAssigned = {SlotOf(w) : w \in Prefixes}

AddFailsTerminates ==
    /\ []FailsInOrder
    /\ (pc = "close" /\ head_idx = USIZE_MAX) ~> (pc \in {"outputs", "error"})

\* add_fails has ended on a trie of depth three in which a walk found a
\* child at once and a walk found one at the root after a miss
AddFailsTerminatesWitness ==
    /\ pc = "outputs" /\ cur = Size(visits) /\ outputs = Empty
    /\ Size(visits) >= 6
    /\ \E w \in Prefixes : Len(w) = 3 /\ Len(LongestSuffixPrefix(w)) = 2
    /\ \E w \in Prefixes :
          /\ Len(w) = 3
          /\ Len(LongestSuffixPrefix(w)) = 1
          /\ Len(LongestSuffixPrefix(SubSeq(w, 1, 2))) = 1

-----------------------------------------------------------------------------
(* C20, as claimed: in build_outputs every append to outputs (a run head, a   *)
(* mid-chain record, each copied record, the sentinel) is followed, before    *)
(* the next append, by the check outputs.len() <= OUTPOS_INVALID, and the     *)
(* build fails with AutomatonScale as soon as the length exceeds it.          *)

\* the reverse pass has an iteration to run
AtVisit == pc = "outputs" /\ cur > 0

\* the iteration of the reverse pass that comes next
NextVisit == OutputsVisit(states, extras, outputs, visits[cur - 1].da_idx)

\* the lengths of outputs at the calls of error_checker of that iteration
CheckedLengths == {NextVisit.checked[k] : k \in 1..Len(NextVisit.checked)}

-----------------------------------------------------------------------------
(* C21: within every state's run the records appear in strictly decreasing    *)
(* pattern length; for a state at which a pattern ends the record at          *)
(* output_pos is that pattern's own (value, length); for any other state with *)
(* output_pos set it is the record of the longest pattern that is a proper    *)
(* suffix of the state's path.                                                *)

\* the non-empty patterns, by index, that are proper suffixes of w
ProperSuffixPatterns(w) ==
    {k \in 1..Len(patvals) :
        PatternOf(k) # <<>> /\ IsProperSuffix(PatternOf(k), w)}

RunsLongestFirst ==
    pc = "done" =>
        \A w \in Prefixes \ {<<>>} :
            LET s == SlotOf(w)
                recs == RunRecords(s)
            IN  states[s].output_pos # OUTPOS_INVALID =>
                  /\ Len(recs) >= 1
                  /\ \A k \in 1..(Len(recs) - 1) : recs[k][2] > recs[k + 1][2]
                  /\ IF PatternsAt(s) # {}
                     THEN /\ recs[1][2] = Len(w)
                          /\ \E k \in PatternsAt(s) : recs[1] = Record(k)
                     ELSE /\ ProperSuffixPatterns(w) # {}
                          /\ \E k \in ProperSuffixPatterns(w) :
                                /\ recs[1] = Record(k)
                                /\ \A j \in ProperSuffixPatterns(w) :
                                      Len(PatternOf(j)) <= Len(PatternOf(k))

\* a state at which a pattern ends has a run of two records, and a state at
\* which none ends has the run of its fail's fail: its fail has no pattern
RunsLongestFirstWitness ==
    /\ pc = "done"
    /\ \E w \in Prefixes \ {<<>>} :
          PatternsAt(SlotOf(w)) # {} /\ Len(RunRecords(SlotOf(w))) >= 2
    /\ \E w \in Prefixes \ {<<>>} :
          /\ PatternsAt(SlotOf(w)) = {}
          /\ PatternsAt(states[SlotOf(w)].fail) = {}
          /\ states[SlotOf(w)].fail # 0
          /\ Len(RunRecords(SlotOf(w))) >= 1

-----------------------------------------------------------------------------
(* C22: after the reverse pass a state in visits is marked processed exactly  *)
(* when a pattern ends at it; at every point between the iterations processed *)
(* implies output_pos set, and a pattern-terminal state not yet processed has *)
(* output_pos unset; in the forward pass a state at which no pattern ends     *)
(* receives output_pos(fail(s)) only after fail(s) has its final output_pos:  *)
(* fail(s) is the root or comes earlier in visits.                            *)

\* a pattern ends at slot s, by the output the placer copied from the trie
Terminal(s) == extras[s].output[1] # VALUE_INVALID

\* the iteration of visits[k] is over: the reverse pass goes down from the
\* last of visits, the forward pass up from the first
ReverseDone(k) == pc \in {"dummy", "done"} \/ (pc = "outputs" /\ k >= cur)
ForwardDone(k) == pc = "done" \/ (pc = "dummy" /\ k < cur)

ProcessedMarksPatterns ==
    pc \in {"outputs", "dummy", "done"} =>
        /\ ~extras[0].processed /\ states[0].output_pos = OUTPOS_INVALID
        /\ \A i \in DOMAIN states :
              /\ extras[i].processed => states[i].output_pos # OUTPOS_INVALID
              /\ (Terminal(i) /\ ~extras[i].processed)
                    => states[i].output_pos = OUTPOS_INVALID
        /\ \A k \in DOMAIN visits :
              LET s == visits[k].da_idx
                  f == states[s].fail
              IN  /\ Terminal(s) <=> (PatternsAt(s) # {})
                  /\ extras[s].processed => Terminal(s)
                  /\ ReverseDone(k) => (extras[s].processed <=> Terminal(s))
                  /\ f = 0 \/ \E j \in 0..(k - 1) : visits[j].da_idx = f
                  /\ ~Terminal(s) =>
                        IF ForwardDone(k)
                        THEN states[s].output_pos = states[f].output_pos
                        ELSE states[s].output_pos = OUTPOS_INVALID

\* the forward pass comes to a state without a pattern whose fail has none
\* either and has received its output_pos in the forward pass
ProcessedMarksPatternsWitness ==
    /\ pc = "dummy" /\ cur < Size(visits)
    /\ ~Terminal(visits[cur].da_idx)
    /\ states[visits[cur].da_idx].fail # 0
    /\ ~Terminal(states[visits[cur].da_idx].fail)
    /\ states[states[visits[cur].da_idx].fail].output_pos # OUTPOS_INVALID
    /\ \E i \in DOMAIN states :
          extras[i].processed /\ ~outputs[states[i].output_pos].is_begin

====
